---------------------------- MODULE Spec2Model ----------------------------
(***************************************************************************)
(* Mint tracker: the log classification / decoding function (processLog)   *)
(* and the live-session aggregation pipeline (startLive, the log listener, *)
(* processNewItems, upsertSummary, enrichCollection, stopLive) of the App  *)
(* component.                                                              *)
(*                                                                         *)
(* Representation.                                                         *)
(*  - A JS string is a sequence of one-character strings.                  *)
(*  - An optional value is a sequence: <<>> is undefined, <<x>> is x.      *)
(*  - A 32-byte topic is a record [hi, lo]: lo is the low 20 bytes (an     *)
(*    address value), hi the 12 bytes above it; the word's integer value   *)
(*    is hi * AddrMod + lo.  Addresses are scaled to AddrHexLen hex        *)
(*    digits.                                                              *)
(*  - ABI data is a sequence of 256-bit words; offsets count words.        *)
(*  - logIndex is kept in fixed point, in units of the batch increment     *)
(*    0.001: the number x is stored as x * EPSILON_INV.                    *)
(***************************************************************************)
EXTENDS Integers, Sequences, FiniteSets, Bags, TLC

\* ------------------------------------------------------------------ bounds
AddrHexLen == 2
MaxFold == 3
MaxLogs == 2

MaxGroup == 3

\* --------------------------------------------------------------- strings
HexChars == <<"0","1","2","3","4","5","6","7","8","9","a","b","c","d","e","f">>

DecChars == <<"0","1","2","3","4","5","6","7","8","9">>

RECURSIVE Pow(_, _)
Pow(b, e) == IF e = 0 THEN 1 ELSE b * Pow(b, e - 1)

AddrMod == Pow(16, AddrHexLen)

\* String.prototype.toLowerCase on one character.
LowerChar(c) ==
  CASE c = "A" -> "a" [] c = "B" -> "b" [] c = "C" -> "c"
    [] c = "D" -> "d" [] c = "E" -> "e" [] c = "F" -> "f"
    [] OTHER -> c

UpperChar(c) ==
  CASE c = "a" -> "A" [] c = "b" -> "B" [] c = "c" -> "C"
    [] c = "d" -> "D" [] c = "e" -> "E" [] c = "f" -> "F"
    [] OTHER -> c

toLowerCase(s) == [i \in DOMAIN s |-> LowerChar(s[i])]

\* The hex digits of v, most significant first, on n characters (lowercase).
RECURSIVE ToHex(_, _)
ToHex(v, n) == IF n = 0 THEN <<>> ELSE Append(ToHex(v \div 16, n - 1), HexChars[(v % 16) + 1])

HexVal(c) == CHOOSE d \in 0..15 : HexChars[d + 1] = LowerChar(c)

RECURSIVE FromHex(_)
FromHex(s) == IF s = <<>> THEN 0 ELSE FromHex(SubSeq(s, 1, Len(s) - 1)) * 16 + HexVal(s[Len(s)])

\* BigInt.prototype.toString(): base-10 digits, no leading zero.
RECURSIVE toString(_)
toString(n) == IF n < 10 THEN <<DecChars[n + 1]>> ELSE Append(toString(n \div 10), DecChars[(n % 10) + 1])

\* ethers.getAddress: the checksum form of an address string.  The case of
\* each letter is decided by a hash of the lowercase address (keccak256 in
\* ethers); the hash bit of position p (counted from the right) is modelled
\* by the parity of value + p.
getAddress(s) ==
  LET l == toLowerCase(s)
      v == FromHex(l)
  IN  [i \in DOMAIN l |-> IF (v + (Len(l) - i + 1)) % 2 = 1 THEN UpperChar(l[i]) ELSE l[i]]

\* `0x${topic.slice(26)}`: the low 20 bytes of a topic as a lowercase hex string.
TopicSlice26(t) == ToHex(t.lo, AddrHexLen)

\* Mutant: only the low 20 bytes of the topic are read.
toBigIntLowBytes(t) == t.lo

\* ethers.toBigInt(topic): the big-endian integer value of the 32 bytes.
toBigInt(t) == t.hi * AddrMod + t.lo

\* ------------------------------------------------------------- constants
ZERO_ADDR == ToHex(0, AddrHexLen)

ZERO_TOPIC == [hi |-> 0, lo |-> FromHex(ZERO_ADDR)]

\* The three event signatures, abbreviated to their first and last byte.
TRANSFER_TOPIC == [sig |-> "ddf252ad..b3ef"]

TRANSFER_SINGLE_TOPIC == [sig |-> "c3d58168..0f62"]

TRANSFER_BATCH_TOPIC == [sig |-> "4a39dc06..f7fb"]

\* The allow-list entry 0x00000000009a1E02f00E280dcfA4C81c55724212, scaled to
\* AddrHexLen digits: its mixed-case fragment "1E" behind leading zeros.
WhitelistEntry == ToHex(0, AddrHexLen - 2) \o <<"1", "E">>

MINT_CONTRACT_WHITELIST == {WhitelistEntry}

ERC20 == "ERC-20"

ERC721 == "ERC-721"

ERC1155 == "ERC-1155"

EPSILON_INV == 1000

Undef == <<>>

Some(x) == <<x>>


\* ------------------------------------------------------------ ABI decode
\* AbiCoder.decode(['uint256'], data): the first word; throws on short data.
DecodeUint(data) ==
  IF Len(data) < 1 THEN [ok |-> FALSE, v |-> <<>>]
  ELSE [ok |-> TRUE, v |-> <<data[1]>>]

\* AbiCoder.decode(['uint256', 'uint256'], data).
DecodeUintPair(data) ==
  IF Len(data) < 2 THEN [ok |-> FALSE, v |-> <<>>]
  ELSE [ok |-> TRUE, v |-> <<data[1], data[2]>>]

\* One dynamic uint256[] at word offset off: a length word, then the elements.
DecodeArrayAt(data, off) ==
  IF off + 1 > Len(data) THEN [ok |-> FALSE, v |-> <<>>]
  ELSE LET n == data[off + 1]
       IN  IF off + 1 + n > Len(data) THEN [ok |-> FALSE, v |-> <<>>]
           ELSE [ok |-> TRUE, v |-> SubSeq(data, off + 2, off + 1 + n)]

\* AbiCoder.decode(['uint256[]', 'uint256[]'], data): two head offsets.
DecodeUintArrays(data) ==
  IF Len(data) < 2 THEN [ok |-> FALSE, ids |-> <<>>, values |-> <<>>]
  ELSE LET a == DecodeArrayAt(data, data[1])
           b == DecodeArrayAt(data, data[2])
       IN  [ok |-> a.ok /\ b.ok, ids |-> a.v, values |-> b.v]

\* ------------------------------------------------------------ processLog
\* baseItem plus the fields of one pushed MintItem.
MintItem(log, logIndex, to, type, tokenId, amount) ==
  [blockNumber |-> log.blockNumber,
   txHash      |-> log.transactionHash,
   logIndex    |-> logIndex,
   contract    |-> getAddress(log.address),
   to          |-> to,
   type        |-> type,
   tokenId     |-> tokenId,
   amount      |-> amount,
   timestamp   |-> Undef]

\* Mutant: the sub-item offset is forgotten.
BatchLogIndexNoOffset(base, i) == base * EPSILON_INV

\* baseItem.logIndex + i * 0.001, in units of 0.001.
BatchLogIndex(base, i) == base * EPSILON_INV + i

\* The recipient address read from topic number k (1-based).
TopicAddress(log, k) == getAddress(TopicSlice26(log.topics[k]))

\* Mutant: the ERC-721 test compares the topic count with 3 instead of 4 (and
\* reads the id from the last topic).
TransferCaseThreeTopics(log) ==
  LET t == log.topics IN
  IF ~(Len(t) >= 2 /\ t[2] = ZERO_TOPIC) THEN [results |-> <<>>, caught |-> FALSE]
  ELSE IF Len(t) < 3 THEN [results |-> <<>>, caught |-> TRUE]
  ELSE LET to == TopicAddress(log, 3) IN
       IF Len(t) = 3
       THEN [results |-> <<MintItem(log, log.index * EPSILON_INV, to, ERC721,
                                    Some(toString(toBigInt(t[3]))), Undef)>>,
             caught |-> FALSE]
       ELSE LET d == DecodeUint(log.data) IN
            IF ~d.ok THEN [results |-> <<>>, caught |-> TRUE]
            ELSE [results |-> <<MintItem(log, log.index * EPSILON_INV, to, ERC20,
                                         Undef, Some(toString(d.v[1])))>>,
                  caught |-> FALSE]

\* case TRANSFER_TOPIC.  topics[2] is read before the topic count is looked
\* at, so a log with two topics throws; any count other than 4 takes the
\* ERC-20 branch.
TransferCase(log) ==
  LET t == log.topics IN
  IF ~(Len(t) >= 2 /\ t[2] = ZERO_TOPIC) THEN [results |-> <<>>, caught |-> FALSE]
  ELSE IF Len(t) < 3 THEN [results |-> <<>>, caught |-> TRUE]
  ELSE LET to == TopicAddress(log, 3) IN
       IF Len(t) = 4
       THEN [results |-> <<MintItem(log, log.index * EPSILON_INV, to, ERC721,
                                    Some(toString(toBigInt(t[4]))), Undef)>>,
             caught |-> FALSE]
       ELSE LET d == DecodeUint(log.data) IN
            IF ~d.ok THEN [results |-> <<>>, caught |-> TRUE]
            ELSE [results |-> <<MintItem(log, log.index * EPSILON_INV, to, ERC20,
                                         Undef, Some(toString(d.v[1])))>>,
                  caught |-> FALSE]

\* Mutant: the sender topic of a TransferSingle is not looked at.
TransferSingleAnySender(log) ==
  LET t == log.topics IN
  IF Len(t) < 4 THEN [results |-> <<>>, caught |-> TRUE]
  ELSE LET to == TopicAddress(log, 4)
           d  == DecodeUintPair(log.data)
       IN  IF ~d.ok THEN [results |-> <<>>, caught |-> TRUE]
           ELSE [results |-> <<MintItem(log, log.index * EPSILON_INV, to, ERC1155,
                                        Some(toString(d.v[1])), Some(toString(d.v[2])))>>,
                 caught |-> FALSE]

\* case TRANSFER_SINGLE_TOPIC.
TransferSingleCase(log) ==
  LET t == log.topics IN
  IF ~(Len(t) >= 3 /\ t[3] = ZERO_TOPIC) THEN [results |-> <<>>, caught |-> FALSE]
  ELSE IF Len(t) < 4 THEN [results |-> <<>>, caught |-> TRUE]
  ELSE LET to == TopicAddress(log, 4)
           d  == DecodeUintPair(log.data)
       IN  IF ~d.ok THEN [results |-> <<>>, caught |-> TRUE]
           ELSE [results |-> <<MintItem(log, log.index * EPSILON_INV, to, ERC1155,
                                        Some(toString(d.v[1])), Some(toString(d.v[2])))>>,
                 caught |-> FALSE]

\* The items the batch loop has pushed when it ends: it runs i = 0 .. ids.length - 1
\* and values[i] throws (out of result range) at the first i >= values.length;
\* what was pushed before stays in results.
BatchPushed(log, to, ids, values) ==
  LET n == IF Len(values) < Len(ids) THEN Len(values) ELSE Len(ids)
  IN  [k \in 1..n |-> MintItem(log, BatchLogIndex(log.index, k - 1), to, ERC1155,
                               Some(toString(ids[k])), Some(toString(values[k])))]

\* case TRANSFER_BATCH_TOPIC.
TransferBatchCase(log) ==
  LET t == log.topics IN
  IF ~(Len(t) >= 3 /\ t[3] = ZERO_TOPIC) THEN [results |-> <<>>, caught |-> FALSE]
  ELSE IF Len(t) < 4 THEN [results |-> <<>>, caught |-> TRUE]
  ELSE LET to == TopicAddress(log, 4)
           d  == DecodeUintArrays(log.data)
       IN  IF ~d.ok THEN [results |-> <<>>, caught |-> TRUE]
           ELSE [results |-> BatchPushed(log, to, d.ids, d.values),
                 caught  |-> Len(d.values) < Len(d.ids)]

\* processLog with the fact whether its catch block ran.
ProcessLogOutcome(log) ==
  IF log.topics = <<>> THEN [results |-> <<>>, caught |-> FALSE]
  ELSE CASE log.topics[1] = TRANSFER_TOPIC        -> TransferCase(log)
         [] log.topics[1] = TRANSFER_SINGLE_TOPIC -> TransferSingleCase(log)
         [] log.topics[1] = TRANSFER_BATCH_TOPIC  -> TransferBatchCase(log)
         [] OTHER -> [results |-> <<>>, caught |-> FALSE]

processLog(log) == ProcessLogOutcome(log).results


\* ------------------------------------------------------------------ state
VARIABLES
  wsProvider,     \* TRUE when the WebSocket provider was constructed
  httpProvider,   \* TRUE when the HTTP provider is set
  subscribing,    \* the session flag
  error,          \* the user-visible error: Undef or Some(message)
  listeners,      \* number of log listeners registered on wsProvider
  wsFailed,       \* TRUE once the WebSocket connection is lost for good
  unheard,        \* history: logs emitted with no listener registered since the reset
  mints,          \* the global event log
  summaries,      \* contract -> CollSummary
  metaCache,      \* contract -> ContractMeta
  pipelines,      \* bag of listener invocations suspended at an await
  fetches,        \* bag of enrichCollection calls suspended at Promise.allSettled
  delivered,      \* history: number of logs the stream has delivered
  fetchStarts,    \* history: contract -> metadata fetches started since the reset
  foldedCalls,    \* history: bag of [log, stale] upserted since the reset
  mergedCalls,    \* history: bag of [log, stale] merged into mints since the reset
  cacheOrigin,    \* history: contract -> the [log, stale] its cache entry derives from
  dLog,           \* decoder harness: the raw log under test
  dOut,           \* decoder harness: Undef, or Some(outcome of processLog)
  fCalls,         \* fold harness: the ingest calls (item groups), in arrival order
  fOrder,         \* fold harness: a permutation of the calls
  fPos,           \* fold harness: number of calls folded so far
  fA,             \* fold harness: the aggregate after fPos calls in arrival order
  fB              \* fold harness: the aggregate after fPos calls in fOrder

vars == <<wsProvider, httpProvider, subscribing, error, listeners, wsFailed, unheard, mints, summaries,
          metaCache, pipelines, fetches, delivered, fetchStarts, foldedCalls,
          mergedCalls, cacheOrigin, dLog, dOut, fCalls, fOrder, fPos, fA, fB>>

harnessVars == <<dLog, dOut, fCalls, fOrder, fPos, fA, fB>>

sessionVars == <<wsProvider, httpProvider, subscribing, error, listeners, wsFailed, unheard, mints,
                 summaries, metaCache, pipelines, fetches, delivered,
                 fetchStarts, foldedCalls, mergedCalls, cacheOrigin>>

\* ------------------------------------------------------------ the chain
\* Everything the collaborators answer is a fixed function of the chain; what
\* varies is whether a request succeeds.
Topic(hi, lo) == [hi |-> hi, lo |-> lo]

ContractA == getAddress(ToHex(171, AddrHexLen))

ContractB == getAddress(ToHex(192, AddrHexLen))

\* tx.to per transaction hash: the allow-listed address in its checksum form,
\* in lower case, another address, and a contract creation (no destination).
TxTo(txHash) ==
  CASE txHash = "t1" -> Some(WhitelistEntry)
    [] txHash = "t2" -> Some(toLowerCase(WhitelistEntry))
    [] txHash = "t3" -> Some(getAddress(ToHex(171, AddrHexLen)))
    [] OTHER -> Undef

ChainTime(blockNumber) == 1000 + blockNumber

ChainName(addr) == IF addr = ContractA THEN "Alpha" ELSE "Beta"

ChainSymbol(addr) == IF addr = ContractA THEN "ALP" ELSE "BET"

ChainDecimals(addr) == 18

\* Two uint256[] arrays as ABI words: two head offsets, then each array as
\* its length followed by its elements.
EncodeArrays(ids, values) ==
  <<2, 3 + Len(ids)>> \o <<Len(ids)>> \o ids \o <<Len(values)>> \o values

RawLog(address, topics, data, blockNumber, txHash, index) ==
  [address |-> address, topics |-> topics, data |-> data,
   blockNumber |-> blockNumber, transactionHash |-> txHash, index |-> index]

\* The logs the stream can deliver in the session model.  The subscription
\* filter lets through only the three transfer signatures.
LogCatalog ==
  << RawLog(ContractA, <<TRANSFER_BATCH_TOPIC, Topic(0, 9), ZERO_TOPIC, Topic(0, 5)>>,
            EncodeArrays(<<1, 42, 7>>, <<10, 20>>), 1, "t1", 0),
     RawLog(ContractB, <<TRANSFER_TOPIC, ZERO_TOPIC, Topic(0, 5)>>,
            <<500>>, 2, "t2", 2),
     RawLog(ContractA, <<TRANSFER_SINGLE_TOPIC, Topic(0, 9), ZERO_TOPIC, Topic(0, 6)>>,
            <<7, 3>>, 2, "t3", 0),
     RawLog(ContractB, <<TRANSFER_TOPIC, ZERO_TOPIC, Topic(0, 5), Topic(0, 1)>>,
            <<>>, 2, "t4", 1),
     RawLog(ContractA, <<TRANSFER_TOPIC, ZERO_TOPIC>>,
            <<500>>, 2, "t1", 3) >>

\* The logs delivered where the allow-list gate is explored (every kind of
\* transaction destination) and where failures and completion are explored
\* (a log that decodes, a log of an allow-listed transaction that does not).
GateLogs == {1, 2, 3, 4}

LiveLogs == {2, 5}

\* processLog applied to each log of the catalog (the decoder is a pure
\* function of the log, so its result is computed once per log).
DecodedCatalog == [l \in DOMAIN LogCatalog |-> processLog(LogCatalog[l])]

\* --------------------------------------------------------- contract filter
allowedMintContracts == {toLowerCase(a) : a \in MINT_CONTRACT_WHITELIST}

\* Mutant: the allow-list lookup is left out.
AllowedAnyDestination(tx) ==
  /\ tx # Undef
  /\ tx[1].to # Undef

\* tx && tx.to && allowedMintContracts.has(tx.to.toLowerCase()); tx is Undef
\* (null) or Some([to |-> Undef or Some(address)]).
Allowed(tx) ==
  /\ tx # Undef
  /\ tx[1].to # Undef
  /\ toLowerCase(tx[1].to[1]) \in allowedMintContracts


\* -------------------------------------------------------------- aggregator
EmptyMeta == [name |-> Undef, symbol |-> Undef, decimals |-> Undef]

\* metaCache.current.get(addr)?.field
CacheGet(cache, addr) == IF addr \in DOMAIN cache THEN cache[addr] ELSE EmptyMeta

\* f with key k set to v (Map.set, object spread with a computed key).
Put(f, k, v) == [x \in DOMAIN f \cup {k} |-> IF x = k THEN v ELSE f[x]]

\* Mutant: a mint is counted only when it brings a new tokenId.
upsertSummaryDedup(prev, cache, item) ==
  LET addr == item.contract
      cur  == IF addr \in DOMAIN prev THEN prev[addr]
              ELSE [address |-> addr, type |-> item.type,
                    name     |-> CacheGet(cache, addr).name,
                    symbol   |-> CacheGet(cache, addr).symbol,
                    decimals |-> CacheGet(cache, addr).decimals,
                    totalMintEvents |-> 0, uniqueTokens |-> 0, tokenIds |-> {}]
      tokenIds == IF item.tokenId # Undef /\ item.tokenId[1] # <<>>
                  THEN cur.tokenIds \cup {item.tokenId[1]} ELSE cur.tokenIds
  IN  Put(prev, addr, [cur EXCEPT !.tokenIds = tokenIds,
                                  !.uniqueTokens = Cardinality(tokenIds),
                                  !.totalMintEvents =
                                     IF tokenIds = cur.tokenIds /\ item.tokenId # Undef
                                     THEN cur.totalMintEvents
                                     ELSE cur.totalMintEvents + 1])

\* The updater of upsertSummary: prev -> next.
upsertSummary(prev, cache, item) ==
  LET addr == item.contract
      cur  == IF addr \in DOMAIN prev THEN prev[addr]
              ELSE [address |-> addr, type |-> item.type,
                    name     |-> CacheGet(cache, addr).name,
                    symbol   |-> CacheGet(cache, addr).symbol,
                    decimals |-> CacheGet(cache, addr).decimals,
                    totalMintEvents |-> 0, uniqueTokens |-> 0, tokenIds |-> {}]
      tokenIds == IF item.tokenId # Undef /\ item.tokenId[1] # <<>>
                  THEN cur.tokenIds \cup {item.tokenId[1]} ELSE cur.tokenIds
  IN  Put(prev, addr, [cur EXCEPT !.tokenIds = tokenIds,
                                  !.uniqueTokens = Cardinality(tokenIds),
                                  !.totalMintEvents = cur.totalMintEvents + 1])

\* Mutant: no placeholder is reserved (the cache is filled at resolution only).
NoPlaceholder(cache, addr) == cache

\* metaCache.current.set(addr, {}): the placeholder enrichCollection reserves
\* before its first await.
ReservePlaceholder(cache, addr) == Put(cache, addr, EmptyMeta)

\* Mutant: only the fields the fetch resolved are copied into the summary.
MergeMetaResolvedOnly(cur, meta) ==
  [cur EXCEPT !.name = IF meta.name # Undef THEN meta.name ELSE @,
              !.symbol = IF meta.symbol # Undef THEN meta.symbol ELSE @,
              !.decimals = IF meta.decimals # Undef THEN meta.decimals ELSE @]

\* { ...cur, ...meta }: meta carries all three keys, undefined ones included.
MergeMeta(cur, meta) ==
  [cur EXCEPT !.name = meta.name, !.symbol = meta.symbol, !.decimals = meta.decimals]

\* Mutant: the comparator looks at the block number only.
BeforeBlockOnly(a, b) == a.blockNumber > b.blockNumber

\* The sort comparator of the global log: a goes before b.
Before(a, b) ==
  \/ a.blockNumber > b.blockNumber
  \/ a.blockNumber = b.blockNumber /\ a.logIndex > b.logIndex

\* Array.prototype.sort is stable: x is placed before the first element it
\* must precede, after everything else.
RECURSIVE InsertSorted(_, _)
InsertSorted(sorted, x) ==
  IF sorted = <<>> THEN <<x>>
  ELSE IF Before(x, Head(sorted)) THEN <<x>> \o sorted
  ELSE <<Head(sorted)>> \o InsertSorted(Tail(sorted), x)

RECURSIVE SortMints(_)
SortMints(s) ==
  IF s = <<>> THEN <<>>
  ELSE InsertSorted(SortMints(SubSeq(s, 1, Len(s) - 1)), s[Len(s)])

\* Mutant: the new items are prepended and the log is not sorted again.
MergeMintsNoSort(prev, newItems) == newItems \o prev

\* The updater of setMints: [...newItems, ...prev].sort(...)
MergeMints(prev, newItems) == SortMints(newItems \o prev)

\* The distinct block numbers of the items, in first-seen order (the keys of
\* byBlock in insertion order).
RECURSIVE BlockOrder(_)
BlockOrder(items) ==
  IF items = <<>> THEN <<>>
  ELSE LET rest == BlockOrder(SubSeq(items, 1, Len(items) - 1))
           bn   == items[Len(items)].blockNumber
       IN  IF \E i \in DOMAIN rest : rest[i] = bn THEN rest ELSE Append(rest, bn)

\* fetchTimestamp: undefined without a provider, when getBlock throws or
\* answers null (ok false), and when the block's timestamp is falsy.
fetchTimestamp(http, ok, bn) ==
  IF http /\ ok /\ ChainTime(bn) # 0 THEN Some(ChainTime(bn)) ELSE Undef

\* Mutant: the timestamp is given to every item of the group.
SetTimestampAll(items, bn, ts) ==
  [i \in DOMAIN items |-> [items[i] EXCEPT !.timestamp = ts]]

\* arr.forEach(it => it.timestamp = ts) for the items of block bn.
SetTimestamp(items, bn, ts) ==
  [i \in DOMAIN items |->
     IF items[i].blockNumber = bn THEN [items[i] EXCEPT !.timestamp = ts] ELSE items[i]]

\* History only: where a cache entry comes from (the log and session of the
\* call that wrote it, the type the fetch was started with) and, once the
\* fetch has settled, which of its calls were fulfilled.
Origin(src, type, settled, nameOk, symbolOk, decimalsOk) ==
  [log |-> src.log, stale |-> src.stale, type |-> type, settled |-> settled,
   nameOk |-> nameOk, symbolOk |-> symbolOk, decimalsOk |-> decimalsOk]

\* The synchronous first loop of processNewItems over items[k..]: upsert the
\* summary, then start the metadata fetch when the cache has no entry.  st
\* carries the shared state the loop reads and writes; src = [log, stale]
\* names the log the items come from (history only).
RECURSIVE UpsertLoop(_, _, _, _)
UpsertLoop(items, k, src, st) ==
  IF k > Len(items) THEN st
  ELSE LET it   == items[k]
           addr == it.contract
           s1   == upsertSummary(st.summaries, st.metaCache, it)
           miss == addr \notin DOMAIN st.metaCache
       IN  UpsertLoop(items, k + 1, src,
             IF miss
             THEN [summaries   |-> s1,
                   metaCache   |-> ReservePlaceholder(st.metaCache, addr),
                   fetches     |-> st.fetches (+) SetToBag({[addr |-> addr, type |-> it.type,
                                                             log |-> src.log, stale |-> src.stale]}),
                   fetchStarts |-> Put(st.fetchStarts, addr,
                                       (IF addr \in DOMAIN st.fetchStarts
                                        THEN st.fetchStarts[addr] ELSE 0) + 1),
                   cacheOrigin |-> Put(st.cacheOrigin, addr,
                                       Origin(src, it.type, FALSE, FALSE, FALSE, FALSE))]
             ELSE [st EXCEPT !.summaries = s1])


\* ------------------------------------------------------------ live session
NoEntries == <<>>

EmptyAggregate ==
  [mints |-> <<>>,
   st    |-> [summaries |-> NoEntries, metaCache |-> NoEntries, fetches |-> EmptyBag,
              fetchStarts |-> NoEntries, cacheOrigin |-> NoEntries]]

\* The harness variables at rest (the session model does not use them).
HarnessIdle ==
  /\ dLog = LogCatalog[1]
  /\ dOut = Undef
  /\ fCalls = <<>>
  /\ fOrder = <<>>
  /\ fPos = 0
  /\ fA = EmptyAggregate
  /\ fB = EmptyAggregate

Init ==
  /\ wsProvider \in BOOLEAN
  /\ httpProvider \in BOOLEAN
  /\ subscribing = FALSE
  /\ error = Undef
  /\ listeners = 0
  /\ wsFailed = FALSE
  /\ unheard = 0
  /\ mints = <<>>
  /\ summaries = NoEntries
  /\ metaCache = NoEntries
  /\ pipelines = EmptyBag
  /\ fetches = EmptyBag
  /\ delivered = 0
  /\ fetchStarts = NoEntries
  /\ foldedCalls = EmptyBag
  /\ mergedCalls = EmptyBag
  /\ cacheOrigin = NoEntries
  /\ HarnessIdle

\* History only: at a reset everything still in flight becomes stale (it
\* belongs to an earlier session).
MarkStale(B) ==
  LET S == {[x EXCEPT !.stale = TRUE] : x \in BagToSet(B)}
  IN  [y \in S |-> CopiesIn(y, B) + CopiesIn([y EXCEPT !.stale = FALSE], B)]

\* Mutant: the reset forgets the metadata cache.
StartLiveKeepsCache ==
  /\ wsProvider /\ httpProvider /\ ~subscribing
  /\ mints' = <<>>
  /\ summaries' = NoEntries
  /\ error' = Undef
  /\ subscribing' = TRUE
  /\ listeners' = listeners + 1
  /\ fetchStarts' = NoEntries
  /\ foldedCalls' = EmptyBag
  /\ mergedCalls' = EmptyBag
  /\ pipelines' = MarkStale(pipelines)
  /\ fetches' = MarkStale(fetches)
  /\ unheard' = 0
  /\ UNCHANGED <<wsProvider, httpProvider, wsFailed, delivered, metaCache, cacheOrigin,
                 harnessVars>>

\* startLive past its guard: the reset, then the listener is registered.
StartLive ==
  /\ wsProvider /\ httpProvider /\ ~subscribing
  /\ mints' = <<>>
  /\ summaries' = NoEntries
  /\ metaCache' = NoEntries
  /\ error' = Undef
  /\ subscribing' = TRUE
  /\ listeners' = listeners + 1
  /\ fetchStarts' = NoEntries
  /\ foldedCalls' = EmptyBag
  /\ mergedCalls' = EmptyBag
  /\ cacheOrigin' = NoEntries
  /\ pipelines' = MarkStale(pipelines)
  /\ fetches' = MarkStale(fetches)
  /\ unheard' = 0
  /\ UNCHANGED <<wsProvider, httpProvider, wsFailed, delivered, harnessVars>>

\* Mutant: the listener is registered before the guard is looked at.
StartLiveRejectedRegisters ==
  /\ ~wsProvider \/ ~httpProvider \/ subscribing
  /\ error' = IF ~wsProvider
              THEN Some("WebSocket provider not available. Cannot start live feed.")
              ELSE error
  /\ listeners' = IF wsProvider /\ listeners < 2 THEN listeners + 1 ELSE listeners
  /\ UNCHANGED <<wsProvider, httpProvider, subscribing, wsFailed, unheard, mints, summaries,
                 metaCache, pipelines, fetches, delivered, fetchStarts,
                 foldedCalls, mergedCalls, cacheOrigin, harnessVars>>

\* Mutant: every rejected start sets the error.
StartLiveRejectedWithError ==
  /\ ~wsProvider \/ ~httpProvider \/ subscribing
  /\ error' = Some("WebSocket provider not available. Cannot start live feed.")
  /\ UNCHANGED <<wsProvider, httpProvider, subscribing, listeners, wsFailed, unheard, mints, summaries,
                 metaCache, pipelines, fetches, delivered, fetchStarts,
                 foldedCalls, mergedCalls, cacheOrigin, harnessVars>>

\* startLive stopped by its guard: the error is set when wsProvider is missing.
StartLiveRejected ==
  /\ ~wsProvider \/ ~httpProvider \/ subscribing
  /\ error' = IF ~wsProvider
              THEN Some("WebSocket provider not available. Cannot start live feed.")
              ELSE error
  /\ UNCHANGED <<wsProvider, httpProvider, subscribing, listeners, wsFailed, unheard, mints, summaries,
                 metaCache, pipelines, fetches, delivered, fetchStarts,
                 foldedCalls, mergedCalls, cacheOrigin, harnessVars>>

\* Mutant: stop only clears the flag, the listener stays registered.
StopLiveKeepsListener ==
  /\ wsProvider
  /\ subscribing' = FALSE
  /\ UNCHANGED <<wsProvider, httpProvider, error, listeners, wsFailed, unheard, mints, summaries,
                 metaCache, pipelines, fetches, delivered, fetchStarts, foldedCalls,
                 mergedCalls, cacheOrigin, harnessVars>>

\* stopLive: removeAllListeners, setSubscribing(false).
StopLive ==
  /\ wsProvider
  /\ listeners' = 0
  /\ subscribing' = FALSE
  /\ UNCHANGED <<wsProvider, httpProvider, error, wsFailed, unheard, mints, summaries, metaCache,
                 pipelines, fetches, delivered, fetchStarts, foldedCalls,
                 mergedCalls, cacheOrigin, harnessVars>>

\* The stream hands a log to the registered listener, which suspends at
\* await getTransaction.
Deliver(l) ==
  /\ listeners > 0 /\ ~wsFailed
  /\ delivered < MaxLogs
  /\ delivered' = delivered + 1
  /\ pipelines' = pipelines (+) SetToBag({[log |-> l, stale |-> FALSE, stage |-> "tx",
                                             items |-> <<>>, todo |-> <<>>,
                                             asked |-> <<>>]})
  /\ UNCHANGED <<wsProvider, httpProvider, subscribing, error, listeners, wsFailed, unheard, mints,
                 summaries, metaCache, fetches, fetchStarts, foldedCalls,
                 mergedCalls, cacheOrigin, harnessVars>>

\* processNewItems(newItems), newItems not empty, up to its first await: the
\* upsert / enrich loop, then the call suspends at fetchTimestamp of the
\* first block.  rest holds the other suspended calls; src = [log, stale].
BeginIngest(rest, src, newItems) ==
  LET st == UpsertLoop(newItems, 1, src,
              [summaries |-> summaries, metaCache |-> metaCache,
               fetches |-> fetches, fetchStarts |-> fetchStarts,
               cacheOrigin |-> cacheOrigin])
  IN  /\ pipelines' = rest (+)
            SetToBag({[log |-> src.log, stale |-> src.stale, stage |-> "ts",
                       items |-> newItems, todo |-> BlockOrder(newItems),
                       asked |-> <<>>]})
      /\ summaries' = st.summaries
      /\ metaCache' = st.metaCache
      /\ fetches' = st.fetches
      /\ fetchStarts' = st.fetchStarts
      /\ cacheOrigin' = st.cacheOrigin
      /\ foldedCalls' = foldedCalls (+) SetToBag({src})

\* getTransaction settles (it throws, answers null, or answers the
\* transaction); the listener runs up to the first await fetchTimestamp.
TxDone(p, outcome) ==
  /\ BagIn(p, pipelines) /\ p.stage = "tx"
  /\ LET log      == LogCatalog[p.log]
         tx       == IF outcome = "tx" THEN Some([to |-> TxTo(log.transactionHash)]) ELSE Undef
         newItems == IF outcome # "throw" /\ Allowed(tx) THEN DecodedCatalog[p.log] ELSE <<>>
     IN  IF newItems = <<>>
         THEN /\ pipelines' = pipelines (-) SetToBag({p})
              /\ UNCHANGED <<summaries, metaCache, fetches, fetchStarts, cacheOrigin,
                             foldedCalls>>
         ELSE BeginIngest(pipelines (-) SetToBag({p}),
                          [log |-> p.log, stale |-> p.stale], newItems)
  /\ UNCHANGED <<wsProvider, httpProvider, subscribing, error, listeners, wsFailed, unheard, mints,
                 delivered, mergedCalls, harnessVars>>

\* fetchTimestamp of the next block of the group settles (ok: getBlock
\* answered); after the last block the group is merged into the global log.
TsDone(p, ok) ==
  /\ BagIn(p, pipelines) /\ p.stage = "ts"
  /\ LET bn    == Head(p.todo)
         ts    == fetchTimestamp(httpProvider, ok, bn)
         asked == Append(p.asked, [bn |-> bn, ok |-> ok /\ httpProvider])
         items == SetTimestamp(p.items, bn, ts)
     IN  IF Tail(p.todo) = <<>>
         THEN /\ mints' = MergeMints(mints, items)
              /\ mergedCalls' = mergedCalls (+)
                    SetToBag({[log |-> p.log, stale |-> p.stale, asked |-> asked]})
              /\ pipelines' = pipelines (-) SetToBag({p})
         ELSE /\ pipelines' = (pipelines (-) SetToBag({p})) (+)
                    SetToBag({[p EXCEPT !.items = items, !.todo = Tail(p.todo),
                                        !.asked = asked]})
              /\ UNCHANGED <<mints, mergedCalls>>
  /\ UNCHANGED <<wsProvider, httpProvider, subscribing, error, listeners, wsFailed, unheard, summaries,
                 metaCache, fetches, delivered, fetchStarts, foldedCalls,
                 cacheOrigin, harnessVars>>

\* Promise.allSettled of enrichCollection settles: each call fulfilled or
\* rejected on its own; decimals is requested for ERC-20 only.
FetchDone(f, nameOk, symbolOk, decimalsOk) ==
  /\ BagIn(f, fetches)
  /\ f.type # ERC20 => decimalsOk
  /\ LET meta == [name     |-> IF nameOk THEN Some(ChainName(f.addr)) ELSE Undef,
                  symbol   |-> IF symbolOk THEN Some(ChainSymbol(f.addr)) ELSE Undef,
                  decimals |-> IF f.type = ERC20 /\ decimalsOk
                               THEN Some(ChainDecimals(f.addr)) ELSE Undef]
     IN  /\ metaCache' = Put(metaCache, f.addr, meta)
         /\ cacheOrigin' = Put(cacheOrigin, f.addr,
                               Origin(f, f.type, TRUE, nameOk, symbolOk,
                                      f.type = ERC20 /\ decimalsOk))
         /\ summaries' = IF f.addr \in DOMAIN summaries
                         THEN Put(summaries, f.addr, MergeMeta(summaries[f.addr], meta))
                         ELSE summaries
  /\ fetches' = fetches (-) SetToBag({f})
  /\ UNCHANGED <<wsProvider, httpProvider, subscribing, error, listeners, wsFailed, unheard, mints,
                 pipelines, delivered, fetchStarts, foldedCalls, mergedCalls,
                 harnessVars>>

Next ==
  \/ StartLive
  \/ StartLiveRejected
  \/ StopLive
  \/ \E l \in GateLogs : Deliver(l)
  \/ \E p \in BagToSet(pipelines), outcome \in {"throw", "null", "tx"} : TxDone(p, outcome)
  \/ \E p \in BagToSet(pipelines), ok \in BOOLEAN : TsDone(p, ok)
  \/ \E f \in BagToSet(fetches), n \in BOOLEAN, s \in BOOLEAN, d \in BOOLEAN : FetchDone(f, n, s, d)

Spec == Init /\ [][Next]_vars


\* ------------------------------------------------------------- live stream
\* The WebSocket connection is lost for good.  The component registers no
\* handler for it: the provider object stays in React state and nothing else
\* changes; the stream just stops handing logs to the listener.
TransportFailure ==
  /\ wsProvider /\ ~wsFailed
  /\ wsFailed' = TRUE
  /\ UNCHANGED <<wsProvider, httpProvider, subscribing, error, listeners, unheard, mints,
                 summaries, metaCache, pipelines, fetches, delivered, fetchStarts,
                 foldedCalls, mergedCalls, cacheOrigin, harnessVars>>

\* The stream emits a log while no listener is registered: nobody is called.
EmitUnheard(l) ==
  /\ wsProvider /\ ~wsFailed
  /\ listeners = 0
  /\ delivered + unheard < MaxLogs
  /\ unheard' = unheard + 1
  /\ UNCHANGED <<wsProvider, httpProvider, subscribing, error, listeners, wsFailed, mints,
                 summaries, metaCache, pipelines, fetches, delivered, fetchStarts, foldedCalls,
                 mergedCalls, cacheOrigin, harnessVars>>

TxSettles == \E p \in BagToSet(pipelines), outcome \in {"throw", "null", "tx"} : TxDone(p, outcome)

TsSettles == \E p \in BagToSet(pipelines), ok \in BOOLEAN : TsDone(p, ok)

FetchSettles ==
  \E f \in BagToSet(fetches), n \in BOOLEAN, s \in BOOLEAN, d \in BOOLEAN : FetchDone(f, n, s, d)

NextLive ==
  \/ StartLive
  \/ StartLiveRejected
  \/ StopLive
  \/ TransportFailure
  \/ \E l \in LiveLogs : Deliver(l)
  \/ \E l \in LiveLogs : EmitUnheard(l)
  \/ TxSettles
  \/ TsSettles
  \/ FetchSettles

\* Every pending promise of the HTTP provider settles (fulfilled or rejected);
\* the user's clicks and the stream's emissions are under no obligation.
SpecLive ==
  /\ Init /\ [][NextLive]_vars
  /\ WF_vars(TxSettles) /\ WF_vars(TsSettles) /\ WF_vars(FetchSettles)


\* ---------------------------------------------------------- session at rest
\* The session variables held at their initial values (the harnesses below
\* exercise pure functions only).
SessionIdle ==
  /\ wsProvider = TRUE
  /\ httpProvider = TRUE
  /\ subscribing = FALSE
  /\ error = Undef
  /\ listeners = 0
  /\ wsFailed = FALSE
  /\ unheard = 0
  /\ mints = <<>>
  /\ summaries = NoEntries
  /\ metaCache = NoEntries
  /\ pipelines = EmptyBag
  /\ fetches = EmptyBag
  /\ delivered = 0
  /\ fetchStarts = NoEntries
  /\ foldedCalls = EmptyBag
  /\ mergedCalls = EmptyBag
  /\ cacheOrigin = NoEntries

\* ----------------------------------------------------------- decoder harness
\* Raw logs of every shape: any first topic, 0 to 4 topics, each further
\* topic the zero sentinel, a non-zero address, or a word whose low 20 bytes
\* are zero but which is not the sentinel; data well-formed and malformed.
UNKNOWN_TOPIC == [sig |-> "8c5be1e5..b925"]

FirstTopics == {TRANSFER_TOPIC, TRANSFER_SINGLE_TOPIC, TRANSFER_BATCH_TOPIC, UNKNOWN_TOPIC}

OtherTopics == {ZERO_TOPIC, Topic(0, 42), Topic(1, 0)}

TopicLists ==
  {<<>>} \cup
  UNION {{<<f>> \o r : r \in [1..n -> OtherTopics]} : f \in FirstTopics, n \in 0..3}

DataSamples ==
  { <<>>, <<500>>, <<7, 3>>, <<9, 9>>,
    EncodeArrays(<<1, 2, 3>>, <<10, 20, 30>>),
    EncodeArrays(<<1, 2, 3>>, <<10, 20>>),
    EncodeArrays(<<1>>, <<10, 20>>),
    EncodeArrays(<<>>, <<>>) }

\* Batches of EPSILON_INV and EPSILON_INV + 1 ids: the sizes at which
\* i * 0.001 reaches 1.
BigBatchLogs ==
  { RawLog(ContractA, <<TRANSFER_BATCH_TOPIC, Topic(0, 9), ZERO_TOPIC, Topic(0, 42)>>,
           EncodeArrays([k \in 1..n |-> k % 3], [k \in 1..n |-> 1]), 1, "t1", 3)
      : n \in {EPSILON_INV, EPSILON_INV + 1} }

DecodeInputs ==
  { RawLog(ContractA, t, d, 1, "t1", i) : t \in TopicLists, d \in DataSamples, i \in {0, 3} }
    \cup BigBatchLogs

InitDecode ==
  /\ SessionIdle
  /\ dLog \in DecodeInputs
  /\ dOut = Undef
  /\ fCalls = <<>> /\ fOrder = <<>> /\ fPos = 0
  /\ fA = EmptyAggregate /\ fB = EmptyAggregate

Decode ==
  /\ dOut = Undef
  /\ dOut' = Some(ProcessLogOutcome(dLog))
  /\ UNCHANGED <<sessionVars, dLog, fCalls, fOrder, fPos, fA, fB>>

SpecDecode == InitDecode /\ [][Decode]_vars

\* -------------------------------------------------------------- fold harness
\* processNewItems as a fold: the summaries are updated item by item, then the
\* group is merged into the global log.
Ingest(agg, items) ==
  [mints |-> MergeMints(agg.mints, items),
   st    |-> UpsertLoop(items, 1, [log |-> 0, stale |-> FALSE], agg.st)]

\* The groups an ingest call can carry: the items of one catalog log, with
\* the timestamp its block lookup gave (or none, when the lookup failed).
CallOf(l, ok) ==
  LET items == DecodedCatalog[l]
      bn    == LogCatalog[l].blockNumber
  IN  SetTimestamp(items, bn, IF ok THEN Some(ChainTime(bn)) ELSE Undef)

FoldCalls == {CallOf(l, TRUE) : l \in GateLogs} \cup {CallOf(1, FALSE)}

CallOrders(n) == {f \in [1..n -> 1..n] : \A i, j \in 1..n : f[i] = f[j] => i = j}

InitFold ==
  /\ SessionIdle
  /\ dLog = LogCatalog[1] /\ dOut = Undef
  /\ \E n \in 1..MaxFold :
       /\ fCalls \in [1..n -> FoldCalls]
       /\ fOrder \in CallOrders(n)
  /\ fPos = 0
  /\ fA = EmptyAggregate
  /\ fB = EmptyAggregate

FoldStep ==
  /\ fPos < Len(fCalls)
  /\ fPos' = fPos + 1
  /\ fA' = Ingest(fA, fCalls[fPos + 1])
  /\ fB' = Ingest(fB, fCalls[fOrder[fPos + 1]])
  /\ UNCHANGED <<sessionVars, dLog, dOut, fCalls, fOrder>>

SpecFold == InitFold /\ [][FoldStep]_vars


\* ------------------------------------------------------------ ingest harness
\* processNewItems called once with a group of items of several blocks, in
\* any order; its block lookups then settle one by one, each answered or
\* failed.  The metadata fetches it starts are left pending: they touch
\* neither the timestamps nor the global log.
ItemPool ==
  { DecodedCatalog[1][1], DecodedCatalog[1][2], DecodedCatalog[2][1],
    processLog(RawLog(ContractB, <<TRANSFER_TOPIC, ZERO_TOPIC, Topic(0, 5), Topic(0, 1)>>,
                      <<>>, 3, "t1", 0))[1] }

IngestGroups == UNION {[1..n -> ItemPool] : n \in 1..MaxGroup}

InitIngest ==
  /\ SessionIdle
  /\ dLog = LogCatalog[1] /\ dOut = Undef
  /\ fCalls = <<>> /\ fOrder = <<>> /\ fPos = 0
  /\ fA = EmptyAggregate /\ fB = EmptyAggregate

IngestCall(g) ==
  /\ fCalls = <<>>
  /\ fCalls' = <<g>>
  /\ BeginIngest(pipelines, [log |-> 0, stale |-> FALSE], g)
  /\ UNCHANGED <<wsProvider, httpProvider, subscribing, error, listeners, wsFailed, unheard, mints,
                 delivered, mergedCalls, dLog, dOut, fOrder, fPos, fA, fB>>

NextIngest ==
  \/ \E g \in IngestGroups : IngestCall(g)
  \/ \E p \in BagToSet(pipelines), ok \in BOOLEAN : TsDone(p, ok)

SpecIngest == InitIngest /\ [][NextIngest]_vars


\* ==================================================================== claims
\* ------------------------------------------------------ decoder (SpecDecode)
Decoded == dOut # Undef

Results == dOut[1].results

\* The log is a Transfer whose topic[1] is the zero sentinel.
TransferFromZero ==
  /\ Len(dLog.topics) >= 2
  /\ dLog.topics[1] = TRANSFER_TOPIC
  /\ dLog.topics[2] = ZERO_TOPIC

OneItemOfType(type) == Len(Results) = 1 /\ Results[1].type = type

\* C5 as stated: for a Transfer from the zero sentinel, 4 topics give one
\* ERC-721 item, 2 topics give one ERC-20 item, any other count gives none.
C5_AsStated ==
  (Decoded /\ TransferFromZero) =>
     /\ Len(dLog.topics) = 4 => OneItemOfType(ERC721)
     /\ Len(dLog.topics) = 2 => OneItemOfType(ERC20)
     /\ Len(dLog.topics) \notin {2, 4} => Results = <<>>

\* C5 amended: for a Transfer from the zero sentinel, 4 topics give one
\* ERC-721 item; 3 topics give one ERC-20 item when the data holds a uint256
\* and nothing when it does not; 2 topics give nothing (the recipient topic
\* is missing and the decoder's catch swallows the failure).
C5_TopicCountDecides ==
  (Decoded /\ TransferFromZero) =>
     /\ Len(dLog.topics) = 4 =>
          /\ OneItemOfType(ERC721)
          /\ Results[1].tokenId # Undef /\ Results[1].amount = Undef
     /\ (Len(dLog.topics) = 3 /\ Len(dLog.data) >= 1) =>
          /\ OneItemOfType(ERC20)
          /\ Results[1].tokenId = Undef /\ Results[1].amount # Undef
     /\ (Len(dLog.topics) = 3 /\ Len(dLog.data) = 0) => Results = <<>>
     /\ Len(dLog.topics) = 2 => Results = <<>>

\* C5 witness: a three-topic Transfer from zero was decoded into one ERC-20 item.
C5_Witness ==
  /\ Decoded /\ TransferFromZero
  /\ Len(dLog.topics) = 3
  /\ OneItemOfType(ERC20)
  /\ Results[1].amount = Some(<<"5", "0", "0">>)

\* C6 as stated: whenever the decoder's catch block ran (decoding failed at
\* some point), the decoder returns the empty sequence.
C6_FailureGivesNothing == (Decoded /\ dOut[1].caught) => Results = <<>>

\* The log is a well-formed ERC-1155 batch mint: four topics, zero sender,
\* two arrays that decode, a value for every id.
BatchMint ==
  /\ Len(dLog.topics) = 4
  /\ dLog.topics[1] = TRANSFER_BATCH_TOPIC
  /\ dLog.topics[3] = ZERO_TOPIC
  /\ DecodeUintArrays(dLog.data).ok
  /\ Len(DecodeUintArrays(dLog.data).values) >= Len(DecodeUintArrays(dLog.data).ids)

BatchSize == Len(DecodeUintArrays(dLog.data).ids)

KeysIncrease ==
  /\ Len(Results) = BatchSize
  /\ \A i, j \in 1..Len(Results) : i < j => Results[i].logIndex < Results[j].logIndex

\* All keys lie in [L, L + 1): at or above the log's own index, below the
\* index of any later log of the block.
KeysInUnitInterval ==
  \A i \in 1..Len(Results) :
     /\ Results[i].logIndex >= dLog.index * EPSILON_INV
     /\ Results[i].logIndex < (dLog.index + 1) * EPSILON_INV

\* C7 as stated: for every batch size the sub-item keys are pairwise
\* distinct, strictly increasing, and all lie in [L, L + 1).
C7_AsStated == (Decoded /\ BatchMint) => (KeysIncrease /\ KeysInUnitInterval)

\* What the code does guarantee about the keys of C7: for every batch size
\* they are pairwise distinct and strictly increasing in i; they all lie in
\* [L, L + 1) when the batch has at most 1000 ids, and with more ids sub-item
\* 1000 has the key L + 1 of the next log.
KeysOrderedUpToEpsilon ==
  (Decoded /\ BatchMint) =>
     /\ KeysIncrease
     /\ BatchSize <= EPSILON_INV => KeysInUnitInterval
     /\ BatchSize > EPSILON_INV =>
          Results[EPSILON_INV + 1].logIndex = (dLog.index + 1) * EPSILON_INV

\* The largest batch that stays inside [L, L + 1): 1000 ids, 1000 items.
FullBatchDecoded ==
  /\ Decoded /\ BatchMint
  /\ BatchSize = EPSILON_INV
  /\ Len(Results) = EPSILON_INV
  /\ Results[EPSILON_INV].logIndex = dLog.index * EPSILON_INV + (EPSILON_INV - 1)

\* ---------------------------------------------------- aggregator (SpecFold)
FoldDone == fPos > 0 /\ fPos = Len(fCalls)

SameLogAndTotals ==
  /\ fA.mints = fB.mints
  /\ DOMAIN fA.st.summaries = DOMAIN fB.st.summaries
  /\ \A a \in DOMAIN fA.st.summaries :
       /\ fA.st.summaries[a].totalMintEvents = fB.st.summaries[a].totalMintEvents
       /\ fA.st.summaries[a].tokenIds = fB.st.summaries[a].tokenIds

\* No two different items of the final set share a sort key.
TieFree ==
  \A c, d \in DOMAIN fCalls : \A i \in DOMAIN fCalls[c], j \in DOMAIN fCalls[d] :
     (/\ fCalls[c][i].blockNumber = fCalls[d][j].blockNumber
      /\ fCalls[c][i].logIndex = fCalls[d][j].logIndex)
       => fCalls[c][i] = fCalls[d][j]

\* C4 as stated: every permutation of the ingest calls over the same final
\* item set gives the same global log sequence and the same summary totals.
C4_AsStated == FoldDone => SameLogAndTotals

\* What the code does guarantee about the order independence of C4: the
\* summaries (totalMintEvents, unique-token set) are the same for every
\* permutation of the ingest calls, and so is the global log sequence when no
\* two different items of the final set have the same (blockNumber, logIndex).
OrderIndependentWithoutTies ==
  FoldDone =>
     /\ DOMAIN fA.st.summaries = DOMAIN fB.st.summaries
     /\ \A a \in DOMAIN fA.st.summaries :
          /\ fA.st.summaries[a].totalMintEvents = fB.st.summaries[a].totalMintEvents
          /\ fA.st.summaries[a].tokenIds = fB.st.summaries[a].tokenIds
     /\ TieFree => fA.mints = fB.mints

\* Two different groups of the same block were ingested in the two opposite
\* orders and the final set has no tie.
TieFreeReordering ==
  /\ FoldDone /\ TieFree
  /\ Len(fCalls) >= 2
  /\ fOrder[1] # 1
  /\ fCalls[1] # fCalls[2]
  /\ fCalls[1][1].blockNumber = fCalls[2][1].blockNumber
  /\ Len(fA.mints) >= 3


\* ------------------------------------------------------- live session (Spec)
\* The items the decoder gives for catalog log l, and those of contract a.
ItemsOf(l) == DecodedCatalog[l]

ItemsFor(l, a) == {i \in DOMAIN ItemsOf(l) : ItemsOf(l)[i].contract = a}

FoldedLogs == BagToSet(foldedCalls)

MergedLogs == BagToSet(mergedCalls)

\* Number of items of contract a upserted since the reset, duplicates counted.
RECURSIVE FoldedItemCount(_, _)
FoldedItemCount(S, a) ==
  IF S = {} THEN 0
  ELSE LET c == CHOOSE x \in S : TRUE
       IN  CopiesIn(c, foldedCalls) * Cardinality(ItemsFor(c.log, a))
             + FoldedItemCount(S \ {c}, a)

\* Number of ingest calls since the reset that carried an item of contract a.
RECURSIVE FoldedCallCount(_, _)
FoldedCallCount(S, a) ==
  IF S = {} THEN 0
  ELSE LET c == CHOOSE x \in S : TRUE
       IN  (IF ItemsFor(c.log, a) # {} THEN CopiesIn(c, foldedCalls) ELSE 0)
             + FoldedCallCount(S \ {c}, a)

FoldedTokenIds(a) ==
  {ItemsOf(c[1])[c[2]].tokenId[1] :
     c \in {x \in UNION {{<<d.log, i>> : i \in ItemsFor(d.log, a)} : d \in FoldedLogs} :
              ItemsOf(x[1])[x[2]].tokenId # Undef}}

\* C1: since the last reset at most one metadata fetch was started per
\* contract address, whatever the interleaving of log arrivals, lookups and
\* fetch completions.
C1_AtMostOneFetch == \A a \in DOMAIN fetchStarts : fetchStarts[a] <= 1

\* C1 witness: two ingest calls for one contract ran while the single fetch
\* of this session for that contract was still in flight.
C1_Witness ==
  \E a \in DOMAIN fetchStarts :
     /\ fetchStarts[a] = 1
     /\ FoldedCallCount(FoldedLogs, a) >= 2
     /\ \E f \in BagToSet(fetches) : f.addr = a /\ ~f.stale

\* C2 as stated: after a reset nothing in the global log, the summary map or
\* the metadata cache derives from a log delivered in an earlier session.
C2_NoResurrection ==
  /\ \A c \in MergedLogs : ~c.stale
  /\ \A c \in FoldedLogs : ~c.stale
  /\ \A a \in DOMAIN metaCache : a \in DOMAIN cacheOrigin => ~cacheOrigin[a].stale

\* C3 as stated: no step overwrites a name, symbol or decimals that is set in
\* a summary with another value or with undefined.
C3_NoClobber ==
  [][\A a \in DOMAIN summaries \cap DOMAIN summaries' :
       /\ summaries[a].name # Undef => summaries'[a].name = summaries[a].name
       /\ summaries[a].symbol # Undef => summaries'[a].symbol = summaries[a].symbol
       /\ summaries[a].decimals # Undef => summaries'[a].decimals = summaries[a].decimals
    ]_vars

\* The transaction's destination is on the allow-list, letter case ignored.
GateOpen(txHash) ==
  /\ TxTo(txHash) # Undef
  /\ \E w \in MINT_CONTRACT_WHITELIST : toLowerCase(TxTo(txHash)[1]) = toLowerCase(w)

GateOpenForLog(l) == GateOpen(LogCatalog[l].transactionHash)

\* Everything held derives from a log whose transaction passes the gate.
OnlyGatedData ==
  /\ \A i \in DOMAIN mints : GateOpen(mints[i].txHash)
  /\ \A c \in FoldedLogs \cup MergedLogs : GateOpenForLog(c.log)
  /\ \A p \in BagToSet(pipelines) : p.stage # "tx" => GateOpenForLog(p.log)
  /\ \A a \in DOMAIN summaries :
       \E c \in FoldedLogs : GateOpenForLog(c.log) /\ ItemsFor(c.log, a) # {}
  /\ \A a \in DOMAIN metaCache :
       a \in DOMAIN cacheOrigin /\ GateOpenForLog(cacheOrigin[a].log)
  /\ \A f \in BagToSet(fetches) : GateOpenForLog(f.log)

\* Number of suspended listener invocations: at the transaction lookup
\* (atLookup) or past it.
StageCount(B, atLookup) ==
  LET S == {p \in BagToSet(B) : (p.stage = "tx") = atLookup}
      RECURSIVE Sum(_)
      Sum(T) == IF T = {} THEN 0
                ELSE LET p == CHOOSE x \in T : TRUE IN CopiesIn(p, B) + Sum(T \ {p})
  IN  Sum(S)

\* A lookup ended and its log went no further (the lookup failed, answered no
\* transaction, the gate was closed, or the decoder gave nothing).
LookupDropped ==
  /\ StageCount(pipelines', TRUE) < StageCount(pipelines, TRUE)
  /\ StageCount(pipelines', FALSE) = StageCount(pipelines, FALSE)

\* C8: everything in the global log, the summary map, the metadata cache and
\* past the lookup stage derives from a log whose transaction has a
\* destination on the allow-list (case ignored), and a lookup whose log goes
\* no further changes none of the three.
C8_GateNeverBypassed ==
  /\ []OnlyGatedData
  /\ [][LookupDropped => UNCHANGED <<mints, summaries, metaCache, fetches>>]_vars

\* C8 witness: the items of a log whose transaction destination is the
\* allow-listed address in another letter case are in the global log.
C8_Witness ==
  \E i \in DOMAIN mints :
     /\ TxTo(mints[i].txHash) # Undef
     /\ TxTo(mints[i].txHash)[1] \notin MINT_CONTRACT_WHITELIST
     /\ mints[i].contract \in DOMAIN summaries

\* C9: the global log is sorted by blockNumber descending, then logIndex
\* descending.
C9_Sorted ==
  \A i \in 1..(Len(mints) - 1) :
     \/ mints[i].blockNumber > mints[i + 1].blockNumber
     \/ /\ mints[i].blockNumber = mints[i + 1].blockNumber
        /\ mints[i].logIndex >= mints[i + 1].logIndex

\* C9 witness: the log holds items of two blocks, batch sub-items among them.
C9_Witness ==
  /\ Len(mints) >= 3
  /\ mints[1].blockNumber # mints[Len(mints)].blockNumber
  /\ \E i \in DOMAIN mints : mints[i].logIndex % EPSILON_INV # 0

\* C10: for every contract with a summary, totalMintEvents is the number of
\* items upserted since the reset (duplicates counted), the token set is the
\* set of their tokenIds, uniqueTokens is its size, and a contract that got
\* ERC-20 items only has an empty token set; a contract has a summary exactly
\* when an item of it was upserted.
C10_SummaryCounts ==
  /\ \A a \in DOMAIN summaries :
       /\ summaries[a].totalMintEvents = FoldedItemCount(FoldedLogs, a)
       /\ summaries[a].totalMintEvents > 0
       /\ summaries[a].tokenIds = FoldedTokenIds(a)
       /\ summaries[a].uniqueTokens = Cardinality(summaries[a].tokenIds)
       /\ (\A c \in FoldedLogs : \A i \in ItemsFor(c.log, a) : ItemsOf(c.log)[i].type = ERC20)
            => summaries[a].tokenIds = {}
  /\ \A c \in FoldedLogs : \A i \in DOMAIN ItemsOf(c.log) :
       ItemsOf(c.log)[i].contract \in DOMAIN summaries

\* C10 witness: the same log was ingested twice in one session: four mint
\* events, two unique tokens.
C10_Witness ==
  /\ \E c \in FoldedLogs : CopiesIn(c, foldedCalls) = 2
  /\ ContractA \in DOMAIN summaries
  /\ summaries[ContractA].totalMintEvents = 4
  /\ summaries[ContractA].uniqueTokens = 2

\* The metadata of contract a as its calls answer: each field is the value
\* returned when its call was fulfilled and undefined when it was not.
SettledMeta(a, o) ==
  [name     |-> IF o.nameOk THEN Some(ChainName(a)) ELSE Undef,
   symbol   |-> IF o.symbolOk THEN Some(ChainSymbol(a)) ELSE Undef,
   decimals |-> IF o.decimalsOk THEN Some(ChainDecimals(a)) ELSE Undef]

\* Every settled cache entry holds exactly the fields whose calls succeeded,
\* and decimals was requested only for a contract first seen as ERC-20.
SettledIndependently ==
  \A a \in DOMAIN metaCache :
     cacheOrigin[a].settled =>
        /\ metaCache[a] = SettledMeta(a, cacheOrigin[a])
        /\ cacheOrigin[a].decimalsOk => cacheOrigin[a].type = ERC20
        /\ a \in DOMAIN summaries => summaries[a].type = cacheOrigin[a].type

\* A settled cache entry is not written again while it stays in the cache.
NoSecondSettle ==
  \A a \in DOMAIN metaCache \cap DOMAIN metaCache' :
     cacheOrigin[a].settled =>
        /\ metaCache'[a] = metaCache[a]
        /\ cacheOrigin'[a] = cacheOrigin[a]

\* C19 as stated: name and symbol are requested for every contract, decimals
\* only when the first item seen is ERC-20; the cached metadata holds each
\* requested field exactly when its call succeeded, whatever the other calls
\* did; and a settled entry is final for the session (no retry, a failed
\* field stays undefined).
C19_SettleOnceIndependently ==
  /\ []SettledIndependently
  /\ [][NoSecondSettle]_vars

\* Number of entries of the global log that belong to contract a.
LogEntriesOf(a) == Cardinality({i \in DOMAIN mints : mints[i].contract = a})

\* No listener invocation is suspended at a lookup.
Quiescent == pipelines = EmptyBag

\* C20 as stated: when no log pipeline is in flight, every contract's
\* totalMintEvents equals its number of entries in the global log, and a
\* contract has a summary exactly when it has an entry.
C20_SummariesMatchLog ==
  Quiescent =>
     \A a \in DOMAIN summaries \cup {mints[i].contract : i \in DOMAIN mints} :
        /\ a \in DOMAIN summaries
        /\ LogEntriesOf(a) >= 1
        /\ summaries[a].totalMintEvents = LogEntriesOf(a)

\* A step that registers the log listener.
ListenerRegistered == listeners' > listeners

\* C11: when the listener is registered the global log, the summary map and
\* the metadata cache are empty, and nothing of the new session has been
\* accepted yet: every listener invocation and every metadata fetch still in
\* flight belongs to an earlier session and nothing is counted as upserted
\* or merged since the reset.
C11_ResetBeforeAccept ==
  [][ListenerRegistered =>
       /\ mints' = <<>> /\ summaries' = NoEntries /\ metaCache' = NoEntries
       /\ \A p \in BagToSet(pipelines') : p.stale
       /\ \A f \in BagToSet(fetches') : f.stale
       /\ foldedCalls' = EmptyBag /\ mergedCalls' = EmptyBag
       /\ subscribing' /\ error' = Undef
    ]_vars

\* C11 witness: a session has just been started over an earlier one that had
\* filled the cache: all three collections are empty while a metadata fetch
\* of the earlier session is still in flight.
C11_Witness ==
  /\ subscribing /\ listeners = 1
  /\ mints = <<>> /\ summaries = NoEntries /\ metaCache = NoEntries
  /\ foldedCalls = EmptyBag
  /\ \E f \in BagToSet(fetches) : f.stale

\* A lookup or a metadata fetch settled (no start, stop or delivery).
CompletionStep ==
  /\ listeners' = listeners /\ delivered' = delivered
  /\ pipelines' # pipelines \/ fetches' # fetches

\* C15: the error is set only when wsProvider is missing, it is set only by
\* a start attempt (a step that changes nothing else), and no settling
\* lookup, decode or metadata fetch, failed or not, changes the error or the
\* session state.
C15_ErrorOnlyWithoutTransport ==
  /\ [](error # Undef => ~wsProvider)
  /\ [][(error' # error /\ error' # Undef) =>
         (~wsProvider /\ UNCHANGED <<subscribing, listeners, mints, summaries, metaCache,
                                      pipelines, fetches>>)]_vars
  /\ [][CompletionStep => UNCHANGED <<error, subscribing, listeners, wsProvider>>]_vars

\* C15 witness: a start was attempted without a WebSocket provider.
C15_Witness == error # Undef /\ ~wsProvider /\ ~subscribing

\* ------------------------------------------- decoder, continued (SpecDecode)
\* The topics of the log under test, numbered from 0 as in the source.
TopicCount == Len(dLog.topics)

TopicAt(k) == dLog.topics[k + 1]

\* Item i of the result shares the log's block, transaction and contract and
\* has the low 20 bytes of the recipient topic as its recipient.
SharesBase(i, recipientTopic) ==
  /\ Results[i].blockNumber = dLog.blockNumber
  /\ Results[i].txHash = dLog.transactionHash
  /\ toLowerCase(Results[i].contract) = toLowerCase(dLog.address)
  /\ toLowerCase(Results[i].to) = ToHex(recipientTopic.lo, AddrHexLen)
  /\ Results[i].timestamp = Undef

WellFormed721 ==
  TopicCount = 4 /\ TopicAt(0) = TRANSFER_TOPIC /\ TopicAt(1) = ZERO_TOPIC

WellFormed20 ==
  /\ TopicCount = 3 /\ TopicAt(0) = TRANSFER_TOPIC /\ TopicAt(1) = ZERO_TOPIC
  /\ Len(dLog.data) >= 1

WellFormedSingle ==
  /\ TopicCount = 4 /\ TopicAt(0) = TRANSFER_SINGLE_TOPIC /\ TopicAt(2) = ZERO_TOPIC
  /\ Len(dLog.data) >= 2

BatchFromZero ==
  TopicCount = 4 /\ TopicAt(0) = TRANSFER_BATCH_TOPIC /\ TopicAt(2) = ZERO_TOPIC

\* The data of the log holds the arrays ids and values, equally long.
WellFormedBatch(ids, values) ==
  /\ Len(ids) = Len(values)
  /\ dLog.data = EncodeArrays(ids, values)

\* Arrays of up to three words, and the two long arrays of BigBatchLogs.
SampleArrays ==
  UNION {[1..n -> {1, 2, 3, 10, 20, 30}] : n \in 0..3}
    \cup {[k \in 1..n |-> k % 3] : n \in {EPSILON_INV, EPSILON_INV + 1}}
    \cup {[k \in 1..n |-> 1] : n \in {EPSILON_INV, EPSILON_INV + 1}}

\* C16: a well-formed mint log gives exactly one item for ERC-721 (tokenId the
\* integer value of topic[3], no amount), one for ERC-20 (amount from the
\* data, no tokenId), one for ERC-1155 single (tokenId and amount from the
\* data), and n items for a batch of n ids, item i carrying ids[i] and
\* values[i] in index order; all items share block, transaction, contract and
\* recipient, the recipient being the low 20 bytes of the recipient topic.
C16_WellFormedDecodes ==
  Decoded =>
     /\ WellFormed721 =>
          /\ OneItemOfType(ERC721) /\ SharesBase(1, TopicAt(2))
          /\ Results[1].tokenId = Some(toString(TopicAt(3).hi * AddrMod + TopicAt(3).lo))
          /\ Results[1].amount = Undef
     /\ WellFormed20 =>
          /\ OneItemOfType(ERC20) /\ SharesBase(1, TopicAt(2))
          /\ Results[1].amount = Some(toString(dLog.data[1]))
          /\ Results[1].tokenId = Undef
     /\ WellFormedSingle =>
          /\ OneItemOfType(ERC1155) /\ SharesBase(1, TopicAt(3))
          /\ Results[1].tokenId = Some(toString(dLog.data[1]))
          /\ Results[1].amount = Some(toString(dLog.data[2]))
     /\ BatchFromZero =>
        \A ids, values \in {a \in SampleArrays : 4 + 2 * Len(a) = Len(dLog.data)} :
          WellFormedBatch(ids, values) =>
             /\ Len(Results) = Len(ids)
             /\ \A i \in 1..Len(ids) :
                  /\ Results[i].type = ERC1155 /\ SharesBase(i, TopicAt(3))
                  /\ Results[i].tokenId = Some(toString(ids[i]))
                  /\ Results[i].amount = Some(toString(values[i]))

\* C16 witness: the ERC-721 log with topic[3] = 0x2a was decoded into one
\* item with tokenId "42" and no amount.
C16_Witness ==
  /\ Decoded /\ WellFormed721
  /\ TopicAt(3) = Topic(0, 42)
  /\ Len(Results) = 1
  /\ Results[1].tokenId = Some(<<"4", "2">>)
  /\ Results[1].amount = Undef

\* The sender topic of the log (topic[1] for Transfer, topic[2] for the two
\* ERC-1155 events) is the zero-address sentinel.
ZeroSender ==
  \/ TopicAt(0) = TRANSFER_TOPIC /\ TopicCount >= 2 /\ TopicAt(1) = ZERO_TOPIC
  \/ /\ TopicAt(0) \in {TRANSFER_SINGLE_TOPIC, TRANSFER_BATCH_TOPIC}
     /\ TopicCount >= 3 /\ TopicAt(2) = ZERO_TOPIC

KnownSignature ==
  TopicCount >= 1 /\ TopicAt(0) \in {TRANSFER_TOPIC, TRANSFER_SINGLE_TOPIC, TRANSFER_BATCH_TOPIC}

\* C17: a log with none of the three signatures, or whose sender topic is not
\* the zero-address sentinel, gives the empty sequence (and no failure).
C17_OnlyMints ==
  (Decoded /\ ~(KnownSignature /\ ZeroSender)) => (Results = <<>> /\ ~dOut[1].caught)

\* C17 witness: an otherwise well-formed TransferSingle whose sender is a
\* non-zero address was decoded into nothing.
C17_Witness ==
  /\ Decoded
  /\ TopicCount = 4 /\ TopicAt(0) = TRANSFER_SINGLE_TOPIC
  /\ TopicAt(2) = Topic(0, 42)
  /\ dLog.data = <<7, 3>>
  /\ Results = <<>>

\* ------------------------------------------------- ingest (SpecIngest)
\* The block numbers of a sequence of items, and of a sequence of lookups.
BlocksOf(items) == {items[i].blockNumber : i \in DOMAIN items}

NoBlockTwice(q) == \A i, j \in DOMAIN q : q[i].bn = q[j].bn => i = j

\* The call has been made and all its lookups have settled.
IngestSettled == fCalls # <<>> /\ pipelines = EmptyBag

\* The lookups the settled call issued, in order, each with its outcome.
LookupsIssued == (CHOOSE c \in BagToSet(mergedCalls) : TRUE).asked

Untimed(item) == [item EXCEPT !.timestamp = Undef]

Occurrences(q, x) == Cardinality({i \in DOMAIN q : Untimed(q[i]) = x})

\* C14: an ingest issues exactly one block lookup per distinct block number
\* of its group; once they have settled the whole group is in the global
\* log, every item of a block whose lookup succeeded carries that block's
\* timestamp and every item of a block whose lookup failed carries none.
C14_OneLookupPerBlock ==
  /\ \A p \in BagToSet(pipelines) :
       /\ NoBlockTwice(p.asked \o [i \in DOMAIN p.todo |-> [bn |-> p.todo[i]]])
       /\ {p.asked[i].bn : i \in DOMAIN p.asked} \cup {p.todo[i] : i \in DOMAIN p.todo}
            = BlocksOf(p.items)
  /\ IngestSettled =>
       /\ BagCardinality(mergedCalls) = 1
       /\ NoBlockTwice(LookupsIssued)
       /\ {LookupsIssued[i].bn : i \in DOMAIN LookupsIssued} = BlocksOf(fCalls[1])
       /\ Len(mints) = Len(fCalls[1])
       /\ \A x \in ItemPool : Occurrences(mints, x) = Occurrences(fCalls[1], x)
       /\ \A i \in DOMAIN mints : \A k \in DOMAIN LookupsIssued :
            LookupsIssued[k].bn = mints[i].blockNumber =>
               mints[i].timestamp = IF LookupsIssued[k].ok
                                    THEN Some(ChainTime(mints[i].blockNumber))
                                    ELSE Undef

\* C14 witness: a group of two blocks was merged after the lookup of one block
\* failed and the lookup of the other succeeded.
C14_Witness ==
  /\ IngestSettled
  /\ Len(mints) >= 3
  /\ \E i, j \in DOMAIN mints :
       /\ mints[i].timestamp = Undef
       /\ mints[j].timestamp # Undef
       /\ mints[i].blockNumber # mints[j].blockNumber

\* ---------------------------------------------------- live stream (SpecLive)
\* C12: whenever the transport fails for good while the session is
\* subscribing or streaming, the session eventually returns to idle with a
\* user-visible error set.
C12_FailureReturnsToIdle ==
  (wsFailed /\ subscribing) ~> (~subscribing /\ error # Undef)

\* What the code does instead: the error is never set while the connection
\* object exists, whether it has failed or not.
FailureNeverReported == wsFailed => error = Undef

\* A log leaves the stream: handed to the listener or emitted unheard.
LogEmitted == delivered' + unheard' > delivered + unheard

StopStep == subscribing /\ ~subscribing'

\* C13: stop deregisters the log listener and leaves the session flag idle;
\* while the session is idle no listener is registered, and a log the
\* stream emits then starts no transaction lookup and no decode and changes
\* neither the global log, the summary map nor the metadata cache.
C13_StopSilencesStream ==
  /\ [](~subscribing => listeners = 0)
  /\ [][StopStep => listeners' = 0 /\ ~subscribing']_vars
  /\ [][(~subscribing /\ LogEmitted) =>
          UNCHANGED <<pipelines, mints, summaries, metaCache, fetches>>]_vars

\* C13 witness: a session delivered a log to the listener and was stopped, and
\* the stream has emitted a log since.
C13_Witness ==
  /\ ~subscribing /\ listeners = 0
  /\ delivered > 0
  /\ unheard > 0

\* A listener invocation for log l got its items from the decoder (the
\* transaction is allow-listed) and is inside processNewItems.
Ingesting(l) == \E p \in BagToSet(pipelines) : p.log = l /\ p.stage = "ts"

\* Every item decoded from log l is in the global log, with or without its
\* timestamp.
Logged(l) ==
  \A k \in DOMAIN DecodedCatalog[l] :
     \E i \in DOMAIN mints : Untimed(mints[i]) = Untimed(DecodedCatalog[l][k])

\* Every item decoded from log l is counted in its contract's summary.
Counted(l) ==
  \A k \in DOMAIN DecodedCatalog[l] :
     LET a == DecodedCatalog[l][k].contract
     IN  /\ a \in DOMAIN summaries
         /\ summaries[a].totalMintEvents
              >= Cardinality({j \in DOMAIN DecodedCatalog[l] : DecodedCatalog[l][j].contract = a})

CountedOnEntry ==
  [][\A l \in LiveLogs : (~Ingesting(l) /\ Ingesting(l)') => Counted(l)']_vars

ItemsReachLog == \A l \in LiveLogs : Ingesting(l) ~> Logged(l)

\* --------------------------------------------- summaries and metadata cache
\* The summary of contract a shows what the metadata cache holds for a
\* (nothing where the cache has no entry or the empty placeholder).
AgreesWithCache(a) ==
  /\ summaries[a].name = CacheGet(metaCache, a).name
  /\ summaries[a].symbol = CacheGet(metaCache, a).symbol
  /\ summaries[a].decimals = CacheGet(metaCache, a).decimals

\* C21: in every state in which no metadata fetch is in flight, the name,
\* symbol and decimals of every summary equal the fields of the metadata
\* cache entry of its address.
C21_SummariesAgreeWithCache ==
  fetches = EmptyBag => \A a \in DOMAIN summaries : AgreesWithCache(a)

\* C21 witness: no fetch is in flight and a summary shows a name that a
\* fetch resolved, next to a symbol whose call failed.
C21_Witness ==
  /\ fetches = EmptyBag
  /\ \E a \in DOMAIN summaries :
       /\ summaries[a].name # Undef
       /\ summaries[a].symbol = Undef
       /\ a \in DOMAIN cacheOrigin /\ cacheOrigin[a].settled

\* The agreement does not wait for quiescence.
AlwaysAgreesWithCache == \A a \in DOMAIN summaries : AgreesWithCache(a)

\* ------------------------------------------------------------ rejected start
\* The guard of startLive sends the call away.
StartRefused == ~wsProvider \/ ~httpProvider \/ subscribing

\* C22: a start that is rejected (already subscribing, or a provider
\* missing) leaves the global log, the summary map, the metadata cache and
\* the session flag unchanged and registers no listener; a listener is
\* registered only by an accepted start, so at most one is registered at
\* any time.
C22_RejectedStartChangesNothing ==
  /\ [][StartLiveRejected =>
          UNCHANGED <<mints, summaries, metaCache, subscribing, listeners>>]_vars
  /\ [][listeners' > listeners => ~StartRefused]_vars
  /\ [](listeners <= 1)

\* C22 witness: a start was rejected for want of the transport (its message
\* is up) and there is still no listener, no entry and no session.
C22_Witness ==
  /\ error # Undef
  /\ listeners = 0
  /\ mints = <<>> /\ summaries = NoEntries /\ metaCache = NoEntries

=============================================================================
